---- MODULE Spec2Model ----
(***************************************************************************)
(* Model of the Scedel JSON validator (src/src/json-validator.js).         *)
(*                                                                         *)
(* JavaScript values are records of one shape, so that values of           *)
(* different JavaScript types can be compared:                             *)
(*   t    : "undef" | "null" | "bool" | "num" | "str" | "arr" | "obj"      *)
(*   b    : the boolean of a "bool"                                        *)
(*   n    : the integer of a "num"                                         *)
(*   s    : the text of a "str"                                            *)
(*   keys : the own keys of an "obj", in Object.entries order              *)
(*   kids : the elements of an "arr" / the property values of an "obj"     *)
(* JavaScript strings are TLA+ strings; the text-processing code is        *)
(* modelled character by character with Len, SubSeq and \o.                *)
(***************************************************************************)
EXTENDS Integers, Sequences, FiniteSets, TLC

\* ------------------------------------------------------------------ bounds
MaxNum == 2
MaxArrayLen == 3

\* ------------------------------------------------------- JavaScript values
JsVal(t, b, n, s, keys, kids) ==
  [t |-> t, b |-> b, n |-> n, s |-> s, keys |-> keys, kids |-> kids]

Undef == JsVal("undef", FALSE, 0, "", <<>>, <<>>)
Null == JsVal("null", FALSE, 0, "", <<>>, <<>>)
Bool(b) == JsVal("bool", b, 0, "", <<>>, <<>>)
Num(n) == JsVal("num", FALSE, n, "", <<>>, <<>>)
Str(s) == JsVal("str", FALSE, 0, s, <<>>, <<>>)
Arr(items) == JsVal("arr", FALSE, 0, "", <<>>, items)
Obj(keys, kids) == JsVal("obj", FALSE, 0, "", keys, kids)

\* value === other, for the primitives the validator compares; two
\* distinct arrays or objects are never identical.
StrictEquals(a, b) ==
  /\ a.t = b.t
  /\ a.t \notin {"arr", "obj"}
  /\ a = b

\* value ?? fallback
Coalesce(a, fallback) == IF a.t \in {"undef", "null"} THEN fallback ELSE a

IndexOfKey(keys, name) ==
  IF \E i \in 1..Len(keys) : keys[i] = name
  THEN CHOOSE i \in 1..Len(keys) : keys[i] = name
  ELSE 0

\* Object.prototype.hasOwnProperty.call(value, name), value an object
HasOwnProperty(value, name) == IndexOfKey(value.keys, name) # 0

\* value[name], value an object
GetProperty(value, name) ==
  IF HasOwnProperty(value, name)
  THEN value.kids[IndexOfKey(value.keys, name)]
  ELSE Undef

\* ------------------------------------------------------------ text helpers
CharAt(s, i) == SubSeq(s, i, i)

CharsOf(s) == {CharAt(s, i) : i \in 1..Len(s)}

Digits == CharsOf("0123456789")
LowerLetters == CharsOf("abcdefghijklmnopqrstuvwxyz")
UpperLetters == CharsOf("ABCDEFGHIJKLMNOPQRSTUVWXYZ")
IdentStart == LowerLetters \cup UpperLetters \cup {"_"}
IdentPart == IdentStart \cup Digits
Whitespace == {" ", "\t", "\n", "\r"}

RECURSIVE SkipWhitespace(_, _)
\* first position >= i of s that holds no white space (Len(s) + 1 at the end)
SkipWhitespace(s, i) ==
  IF i <= Len(s) /\ CharAt(s, i) \in Whitespace
  THEN SkipWhitespace(s, i + 1)
  ELSE i

RECURSIVE SkipWhitespaceBack(_, _)
\* last position <= i of s that holds no white space (0 at the start)
SkipWhitespaceBack(s, i) ==
  IF i >= 1 /\ CharAt(s, i) \in Whitespace
  THEN SkipWhitespaceBack(s, i - 1)
  ELSE i

\* String.prototype.trim
Trim(s) == SubSeq(s, SkipWhitespace(s, 1), SkipWhitespaceBack(s, Len(s)))

StartsWithAt(s, i, word) ==
  /\ i + Len(word) - 1 <= Len(s)
  /\ SubSeq(s, i, i + Len(word) - 1) = word

StartsWith(s, word) == StartsWithAt(s, 1, word)

EndsWith(s, word) ==
  /\ Len(word) <= Len(s)
  /\ SubSeq(s, Len(s) - Len(word) + 1, Len(s)) = word

RECURSIVE SkipDigits(_, _)
SkipDigits(s, i) ==
  IF i <= Len(s) /\ CharAt(s, i) \in Digits THEN SkipDigits(s, i + 1) ELSE i

RECURSIVE SkipIdentPart(_, _)
SkipIdentPart(s, i) ==
  IF i <= Len(s) /\ CharAt(s, i) \in IdentPart
  THEN SkipIdentPart(s, i + 1)
  ELSE i

\* end (exclusive) of the identifier [A-Za-z_][A-Za-z0-9_]* at i, 0 if none
IdentEnd(s, i) ==
  IF i <= Len(s) /\ CharAt(s, i) \in IdentStart THEN SkipIdentPart(s, i + 1) ELSE 0

DigitValue(c) == CHOOSE d \in 0..9 : CharAt("0123456789", d + 1) = c

RECURSIVE DigitsToNat(_, _, _)
DigitsToNat(s, i, acc) ==
  IF i > Len(s) THEN acc
  ELSE DigitsToNat(s, i + 1, acc * 10 + DigitValue(CharAt(s, i)))

\* ------------------------------------------------------- literal coercion
\* /^-?\d+(?:\.\d+)?$/.test(trimmed)
IsNumericLiteral(trimmed) ==
  LET FractionEnds(intEnd, fracEnd) ==
        \/ intEnd = Len(trimmed) + 1
        \/ /\ intEnd <= Len(trimmed)
           /\ CharAt(trimmed, intEnd) = "."
           /\ fracEnd > intEnd + 1
           /\ fracEnd = Len(trimmed) + 1
      IntegerEnds(start, intEnd) ==
        intEnd > start /\ FractionEnds(intEnd, SkipDigits(trimmed, intEnd + 1))
      StartsAt(start) == IntegerEnds(start, SkipDigits(trimmed, start))
  IN StartsAt(IF StartsWith(trimmed, "-") THEN 2 ELSE 1)

\* Number(trimmed) for an integer literal; the texts of the model carry no
\* fraction, a fraction would be dropped here.
NumberOfLiteral(trimmed) ==
  LET Signed(neg, mag) == Num(IF neg THEN 0 - mag ELSE mag)
      StartsAt(neg, start) ==
        Signed(neg, DigitsToNat(SubSeq(trimmed, start, SkipDigits(trimmed, start) - 1), 1, 0))
      Negative(neg) == StartsAt(neg, IF neg THEN 2 ELSE 1)
  IN Negative(StartsWith(trimmed, "-"))

RECURSIVE DecodeFrom(_, _, _, _)
\* the loop of decodeStringLiteral: i is 1-based, the last index visited
\* is Len(value) - 1 (both quotes are skipped)
DecodeFrom(value, i, escaped, out) ==
  IF i > Len(value) - 1 THEN out
  ELSE LET char == CharAt(value, i) IN
       IF escaped
       THEN DecodeFrom(value, i + 1, FALSE,
              out \o (IF char = "n" THEN "\n"
                      ELSE IF char = "r" THEN "\r"
                      ELSE IF char = "t" THEN "\t"
                      ELSE char))
       ELSE IF char = "\\"
       THEN DecodeFrom(value, i + 1, TRUE, out)
       ELSE DecodeFrom(value, i + 1, FALSE, out \o char)

decodeStringLiteral(value) == DecodeFrom(value, 2, FALSE, "")

parseMaybeLiteral(value) ==
  LET OfTrimmed(trimmed) ==
        IF trimmed = "true" THEN Bool(TRUE)
        ELSE IF trimmed = "false" THEN Bool(FALSE)
        ELSE IF trimmed = "null" THEN Null
        ELSE IF IsNumericLiteral(trimmed) THEN NumberOfLiteral(trimmed)
        ELSE IF \/ StartsWith(trimmed, "\"") /\ EndsWith(trimmed, "\"")
                \/ StartsWith(trimmed, "'") /\ EndsWith(trimmed, "'")
        THEN Str(decodeStringLiteral(trimmed))
        ELSE Str(trimmed)
  IN IF value.t \in {"null", "undef"} THEN value
     ELSE IF value.t # "str" THEN value
     ELSE OfTrimmed(Trim(value.s))

isObject(value) == value.t = "obj"

\* ------------------------------------------- conditional guard evaluation
\* the results of the embedded interpreter: true, false or null
TriTrue == "true"
TriFalse == "false"
TriNull == "null"
TriOf(b) == IF b THEN TriTrue ELSE TriFalse

RECURSIVE DottedPathEnd(_, _)
\* e is the end (exclusive) of the identifiers matched so far; extends the
\* match by (?:\.[A-Za-z_][A-Za-z0-9_]*)* as far as it goes
DottedPathEnd(s, e) ==
  LET ExtendedTo(next) ==
        IF e <= Len(s) /\ CharAt(s, e) = "." /\ next # 0
        THEN DottedPathEnd(s, next)
        ELSE e
  IN ExtendedTo(IdentEnd(s, e + 1))

\* condition.match(/^([A-Za-z_][A-Za-z0-9_]*(?:\.[A-Za-z_][A-Za-z0-9_]*)*)
\*                  \s*(=|!=)\s*(.+)$/s) : ok is FALSE when there is no match
MatchCondition(condition) ==
  LET NoMatch == [ok |-> FALSE, path |-> "", op |-> "", rest |-> ""]
      OperatorIs(pathEnd, opAt, op) ==
        IF op = "" \/ opAt + Len(op) > Len(condition)
        THEN NoMatch
        ELSE [ok |-> TRUE,
              path |-> SubSeq(condition, 1, pathEnd - 1),
              op |-> op,
              rest |-> SubSeq(condition, opAt + Len(op), Len(condition))]
      OperatorAt(pathEnd, opAt) ==
        OperatorIs(pathEnd, opAt,
                   IF StartsWithAt(condition, opAt, "=") THEN "="
                   ELSE IF StartsWithAt(condition, opAt, "!=") THEN "!="
                   ELSE "")
      PathEndsAt(pathEnd) == OperatorAt(pathEnd, SkipWhitespace(condition, pathEnd))
      FirstEndsAt(first) ==
        IF first = 0 THEN NoMatch ELSE PathEndsAt(DottedPathEnd(condition, first))
  IN FirstEndsAt(IdentEnd(condition, 1))

RECURSIVE SplitDots(_, _, _)
\* text.split('.') : i scans text, start is where the current segment began
SplitDots(text, i, start) ==
  IF i > Len(text) THEN <<SubSeq(text, start, Len(text))>>
  ELSE IF CharAt(text, i) = "."
  THEN <<SubSeq(text, start, i - 1)>> \o SplitDots(text, i + 1, i + 1)
  ELSE SplitDots(text, i + 1, start)

RECURSIVE WalkSegments(_, _, _)
\* the loop of evaluateCondition over the path segments: found is FALSE
\* when a segment is missing or the value walked through is not an object
WalkSegments(current, path, i) ==
  IF i > Len(path) THEN [found |-> TRUE, current |-> current]
  ELSE IF ~isObject(current) \/ ~HasOwnProperty(current, path[i])
  THEN [found |-> FALSE, current |-> current]
  ELSE WalkSegments(GetProperty(current, path[i]), path, i + 1)

\* evaluateCondition returning null, not false, from inside the loop
evaluateConditionGivingUp(condition, objectValue) ==
  LET Compared(op, current, expected) ==
        IF op = "=" THEN TriOf(StrictEquals(current, expected))
        ELSE TriOf(~StrictEquals(current, expected))
      Walked(match, walk) ==
        IF ~walk.found THEN TriNull
        ELSE Compared(match.op, walk.current, parseMaybeLiteral(Str(Trim(match.rest))))
      Matched(match) ==
        IF ~match.ok THEN TriNull
        ELSE Walked(match, WalkSegments(objectValue, SplitDots(match.path, 1, 1), 1))
  IN IF ~isObject(objectValue) THEN TriNull
     ELSE Matched(MatchCondition(condition))

evaluateCondition(condition, objectValue) ==
  LET Compared(op, current, expected) ==
        IF op = "=" THEN TriOf(StrictEquals(current, expected))
        ELSE TriOf(~StrictEquals(current, expected))
      Walked(match, walk) ==
        IF ~walk.found THEN TriFalse
        ELSE Compared(match.op, walk.current, parseMaybeLiteral(Str(Trim(match.rest))))
      Matched(match) ==
        IF ~match.ok THEN TriNull
        ELSE Walked(match, WalkSegments(objectValue, SplitDots(match.path, 1, 1), 1))
  IN IF ~isObject(objectValue) THEN TriNull
     ELSE Matched(MatchCondition(condition))

\* --------------------------------------------------- constraint evaluation
\* the printable ASCII characters in code-unit order (the grave accent,
\* which a TLA+ string cannot hold, is left out)
CharOrder ==
  " !\"#$%&'()*+,-./0123456789:;<=>?@ABCDEFGHIJKLMNOPQRSTUVWXYZ[\\]^_abcdefghijklmnopqrstuvwxyz{|}~"

CharCode(c) ==
  IF \E i \in 1..Len(CharOrder) : CharAt(CharOrder, i) = c
  THEN CHOOSE i \in 1..Len(CharOrder) : CharAt(CharOrder, i) = c
  ELSE 0

RECURSIVE StringLess(_, _, _)
\* a < b for two strings, compared code unit by code unit from position i
StringLess(a, b, i) ==
  IF i > Len(b) THEN FALSE
  ELSE IF i > Len(a) THEN TRUE
  ELSE IF CharAt(a, i) = CharAt(b, i) THEN StringLess(a, b, i + 1)
  ELSE CharCode(CharAt(a, i)) < CharCode(CharAt(b, i))

RECURSIVE JsToString(_)
RECURSIVE JoinItems(_, _)
\* Array.prototype.join(',') : null and undefined elements print as ''
JoinItems(items, i) ==
  IF i > Len(items) THEN ""
  ELSE (IF i > 1 THEN "," ELSE "")
       \o (IF items[i].t \in {"null", "undef"} THEN "" ELSE JsToString(items[i]))
       \o JoinItems(items, i + 1)

\* String(value)
JsToString(value) ==
  IF value.t = "undef" THEN "undefined"
  ELSE IF value.t = "null" THEN "null"
  ELSE IF value.t = "bool" THEN (IF value.b THEN "true" ELSE "false")
  ELSE IF value.t = "num" THEN ToString(value.n)
  ELSE IF value.t = "str" THEN value.s
  ELSE IF value.t = "arr" THEN JoinItems(value.kids, 1)
  ELSE "[object Object]"

\* ToPrimitive of an operand of a relational operator
JsToPrimitive(value) ==
  IF value.t \in {"arr", "obj"} THEN Str(JsToString(value)) ELSE value

\* ToNumber of a primitive; nan marks NaN.  Of the numeric strings only the
\* decimal integers are recognised (the model's texts hold no others).
JsToNumber(prim) ==
  LET OfText(text) ==
        IF text = "" THEN [nan |-> FALSE, n |-> 0]
        ELSE IF IsNumericLiteral(text) THEN [nan |-> FALSE, n |-> NumberOfLiteral(text).n]
        ELSE [nan |-> TRUE, n |-> 0]
  IN IF prim.t = "num" THEN [nan |-> FALSE, n |-> prim.n]
     ELSE IF prim.t = "null" THEN [nan |-> FALSE, n |-> 0]
     ELSE IF prim.t = "bool" THEN [nan |-> FALSE, n |-> IF prim.b THEN 1 ELSE 0]
     ELSE IF prim.t = "str" THEN OfText(Trim(prim.s))
     ELSE [nan |-> TRUE, n |-> 0]

\* left < right as JavaScript evaluates it
JsLess(left, right) ==
  LET OfNumbers(ln, rn) == ~ln.nan /\ ~rn.nan /\ ln.n < rn.n
      OfPrimitives(l, r) ==
        IF l.t = "str" /\ r.t = "str" THEN StringLess(l.s, r.s, 1)
        ELSE OfNumbers(JsToNumber(l), JsToNumber(r))
  IN OfPrimitives(JsToPrimitive(left), JsToPrimitive(right))

\* left <= right as JavaScript evaluates it (it is not "not right < left":
\* both are false on NaN)
JsLessEq(left, right) ==
  LET OfNumbers(ln, rn) == ~ln.nan /\ ~rn.nan /\ ln.n <= rn.n
      OfPrimitives(l, r) ==
        IF l.t = "str" /\ r.t = "str" THEN ~StringLess(r.s, l.s, 1)
        ELSE OfNumbers(JsToNumber(l), JsToNumber(r))
  IN OfPrimitives(JsToPrimitive(left), JsToPrimitive(right))

compare(left, operator, right) ==
  IF operator = "<" \/ operator = ">"
  THEN JsLess(IF operator = "<" THEN left ELSE right, IF operator = "<" THEN right ELSE left)
  ELSE IF operator = "<=" \/ operator = ">="
  THEN JsLessEq(IF operator = "<=" THEN left ELSE right,
                IF operator = "<=" THEN right ELSE left)
  ELSE IF operator = "=" THEN StrictEquals(left, right)
  ELSE IF operator = "!=" THEN ~StrictEquals(left, right)
  ELSE FALSE

RECURSIVE LastSlash(_, _)
LastSlash(raw, i) ==
  IF i < 1 THEN 0
  ELSE IF CharAt(raw, i) = "/" THEN i
  ELSE LastSlash(raw, i - 1)

\* new RegExp(source, flags) and RegExp.prototype.test, for the patterns the
\* model's validator bodies use; every other source stands for a pattern
\* the engine rejects with a SyntaxError.
RegExpSources == {"^[a-z]+$", "^[0-9]+$", "a"}

RegExpCompiles(source, flags) == source \in RegExpSources /\ flags = ""

RegExpTest(source, text) ==
  IF source = "^[a-z]+$"
  THEN Len(text) > 0 /\ \A i \in 1..Len(text) : CharAt(text, i) \in LowerLetters
  ELSE IF source = "^[0-9]+$"
  THEN Len(text) > 0 /\ \A i \in 1..Len(text) : CharAt(text, i) \in Digits
  ELSE \E i \in 1..Len(text) : CharAt(text, i) = "a"

\* raw.match(/^\/(.*)\/([a-z]*)$/s) then new RegExp(match[1], match[2]);
\* ok is FALSE where the code returns null
compileRegexLiteral(raw) ==
  LET Compiled(matched, source, flags) ==
        IF matched /\ RegExpCompiles(source, flags)
        THEN [ok |-> TRUE, source |-> source]
        ELSE [ok |-> FALSE, source |-> ""]
      Split(last, flags) ==
        Compiled(/\ StartsWith(raw, "/")
                 /\ last >= 2
                 /\ \A i \in 1..Len(flags) : CharAt(flags, i) \in LowerLetters,
                 SubSeq(raw, 2, last - 1), flags)
      SplitAt(last) == Split(last, SubSeq(raw, last + 1, Len(raw)))
  IN SplitAt(LastSlash(raw, Len(raw)))

\* position after this\s+matches\s+ starting at i, 0 if it does not match
ThisMatchesEnd(body, i) ==
  LET RawAt(matchesAt, rawAt) ==
        IF /\ StartsWithAt(body, i, "this")
           /\ matchesAt > i + 4
           /\ StartsWithAt(body, matchesAt, "matches")
           /\ rawAt > matchesAt + 7
        THEN rawAt
        ELSE 0
      MatchesAt(matchesAt) == RawAt(matchesAt, SkipWhitespace(body, matchesAt + 7))
  IN MatchesAt(SkipWhitespace(body, i + 4))

\* body.match(/^not\s*\(\s*this\s+matches\s+(\/.*\/)\s*\)$/s)
MatchRegexNegation(body) ==
  LET Captured(parenAt, rawAt, rawEnd) ==
        IF /\ StartsWith(body, "not")
           /\ StartsWithAt(body, parenAt, "(")
           /\ rawAt # 0
           /\ EndsWith(body, ")")
           /\ rawEnd > rawAt
           /\ CharAt(body, rawAt) = "/"
           /\ CharAt(body, rawEnd) = "/"
        THEN [ok |-> TRUE, raw |-> SubSeq(body, rawAt, rawEnd)]
        ELSE [ok |-> FALSE, raw |-> ""]
      ParenAt(parenAt) ==
        Captured(parenAt,
                 ThisMatchesEnd(body, SkipWhitespace(body, parenAt + 1)),
                 SkipWhitespaceBack(body, Len(body) - 1))
  IN ParenAt(SkipWhitespace(body, 4))

\* body.match(/^this\s+matches\s+(\/.*\/)$/s)
MatchRegexMatch(body) ==
  LET Captured(rawAt) ==
        IF /\ rawAt # 0
           /\ Len(body) > rawAt
           /\ CharAt(body, rawAt) = "/"
           /\ CharAt(body, Len(body)) = "/"
        THEN [ok |-> TRUE, raw |-> SubSeq(body, rawAt, Len(body))]
        ELSE [ok |-> FALSE, raw |-> ""]
  IN Captured(ThisMatchesEnd(body, 1))

\* this\s*([<>]=?)\s*\$([A-Za-z_][A-Za-z0-9_]*) at i; end is 0 on no match
MatchThisOpParam(body, i) ==
  LET Captured(opAt, opLen, dollarAt, nameEnd) ==
        IF /\ StartsWithAt(body, i, "this")
           /\ opLen > 0
           /\ StartsWithAt(body, dollarAt, "$")
           /\ nameEnd # 0
        THEN [end |-> nameEnd,
              op |-> SubSeq(body, opAt, opAt + opLen - 1),
              name |-> SubSeq(body, dollarAt + 1, nameEnd - 1)]
        ELSE [end |-> 0, op |-> "", name |-> ""]
      DollarAt(opAt, opLen, dollarAt) ==
        Captured(opAt, opLen, dollarAt, IdentEnd(body, dollarAt + 1))
      OperatorLen(opAt, opLen) ==
        DollarAt(opAt, opLen, SkipWhitespace(body, opAt + opLen))
      OperatorAt(opAt) ==
        OperatorLen(opAt,
                    IF StartsWithAt(body, opAt, "<=") \/ StartsWithAt(body, opAt, ">=") THEN 2
                    ELSE IF StartsWithAt(body, opAt, "<") \/ StartsWithAt(body, opAt, ">") THEN 1
                    ELSE 0)
  IN OperatorAt(SkipWhitespace(body, i + 4))

\* body.match(/^this\s*([<>]=?)\s*\$(name)\s+and\s+this\s*([<>]=?)\s*\$(name)$/)
MatchRangeAnd(body) ==
  LET Captured(first, andAt, thisAt, second) ==
        IF /\ first.end # 0
           /\ andAt > first.end
           /\ StartsWithAt(body, andAt, "and")
           /\ thisAt > andAt + 3
           /\ second.end = Len(body) + 1
        THEN [ok |-> TRUE, op1 |-> first.op, name1 |-> first.name,
              op2 |-> second.op, name2 |-> second.name]
        ELSE [ok |-> FALSE, op1 |-> "", name1 |-> "", op2 |-> "", name2 |-> ""]
      ThisAt(first, andAt, thisAt) ==
        Captured(first, andAt, thisAt, MatchThisOpParam(body, thisAt))
      AndAt(first, andAt) == ThisAt(first, andAt, SkipWhitespace(body, andAt + 3))
      First(first) == AndAt(first, SkipWhitespace(body, first.end))
  IN First(MatchThisOpParam(body, 1))

\* the alternatives of (<=|>=|<|>|=|!=), in the order the engine tries them
ComparisonOperators == <<"<=", ">=", "<", ">", "=", "!=">>

\* body.match(/^this\s*(<=|>=|<|>|=|!=)\s*(.+)$/s) : the first alternative
\* that leaves at least one character for (.+)
MatchSimpleComparison(body) ==
  LET Fits(opAt, k) == /\ StartsWithAt(body, opAt, ComparisonOperators[k])
                       /\ opAt + Len(ComparisonOperators[k]) <= Len(body)
      Captured(opAt, k) ==
        [ok |-> TRUE, op |-> ComparisonOperators[k],
         rest |-> SubSeq(body, opAt + Len(ComparisonOperators[k]), Len(body))]
      OperatorAt(opAt) ==
        IF StartsWith(body, "this") /\ \E k \in 1..6 : Fits(opAt, k)
        THEN Captured(opAt, CHOOSE k \in 1..6 : \A j \in 1..k : Fits(opAt, j) <=> j = k)
        ELSE [ok |-> FALSE, op |-> "", rest |-> ""]
  IN OperatorAt(SkipWhitespace(body, 5))

\* A constraint usage is [name, hasCallArgs, callArgs, argument]: callArgs
\* is a sequence of raw values, hasCallArgs is FALSE when the property is
\* null or undefined; argument is a raw value or Null.
\* A validator is [isBuiltin, native, body, params]: native names the
\* native predicate of a builtin ("" when it has no evaluate function),
\* body is a value, params a sequence of [name, defaultExpr].

\* constraint.callArgs ?? (constraint.argument !== null ? [argument] : [])
IncomingArgs(constraint) ==
  IF constraint.hasCallArgs THEN constraint.callArgs
  ELSE IF constraint.argument # Null THEN <<constraint.argument>>
  ELSE <<>>

\* args[name] after validator.params.forEach(...): the last parameter of
\* that name wins, an unbound name reads as undefined
BoundArg(validator, constraint, name) ==
  LET Bound(index, incomingArgs) ==
        parseMaybeLiteral(
          Coalesce(Coalesce(IF index <= Len(incomingArgs) THEN incomingArgs[index] ELSE Undef,
                            validator.params[index].defaultExpr),
                   Null))
      Last(Matching) ==
        IF Matching = {} THEN Undef
        ELSE Bound(CHOOSE i \in Matching : \A j \in Matching : j <= i, IncomingArgs(constraint))
  IN Last({i \in 1..Len(validator.params) : validator.params[i].name = name})

evaluateCustomValidator(validator, constraint, value, scope) ==
  LET Negated(compiled, subject) ==
        IF compiled.ok THEN TriOf(~RegExpTest(compiled.source, subject)) ELSE TriNull
      Tested(compiled, subject) ==
        IF compiled.ok THEN TriOf(RegExpTest(compiled.source, subject)) ELSE TriNull
      Ranged(rangeAnd) ==
        TriOf(/\ compare(value, rangeAnd.op1, BoundArg(validator, constraint, rangeAnd.name1))
              /\ compare(value, rangeAnd.op2, BoundArg(validator, constraint, rangeAnd.name2)))
      RightValue(right) ==
        IF StartsWith(right, "$")
        THEN BoundArg(validator, constraint, SubSeq(right, 2, Len(right)))
        ELSE parseMaybeLiteral(Str(right))
      Simple(simpleComparison) ==
        IF simpleComparison.ok
        THEN TriOf(compare(value, simpleComparison.op,
                           RightValue(Trim(simpleComparison.rest))))
        ELSE TriNull
      Range(body, rangeAnd) ==
        IF rangeAnd.ok THEN Ranged(rangeAnd) ELSE Simple(MatchSimpleComparison(body))
      Match(body, subject, regexMatch) ==
        IF regexMatch.ok THEN Tested(compileRegexLiteral(regexMatch.raw), subject)
        ELSE Range(body, MatchRangeAnd(body))
      Negation(body, subject, regexNegation) ==
        IF regexNegation.ok THEN Negated(compileRegexLiteral(regexNegation.raw), subject)
        ELSE Match(body, subject, MatchRegexMatch(body))
      Trimmed(body, subject) == Negation(body, subject, MatchRegexNegation(body))
  IN IF validator.body.t # "str" \/ validator.body.s = "" THEN TriNull
     ELSE Trimmed(Trim(validator.body.s), JsToString(Coalesce(value, Str(""))))

RECURSIVE MapParseMaybeLiteral(_, _)
MapParseMaybeLiteral(callArgs, i) ==
  IF i > Len(callArgs) THEN <<>>
  ELSE <<parseMaybeLiteral(callArgs[i])>> \o MapParseMaybeLiteral(callArgs, i + 1)

resolveConstraintArgument(constraint) ==
  IF constraint.hasCallArgs /\ Len(constraint.callArgs) > 0
  THEN IF Len(constraint.callArgs) = 1
       THEN parseMaybeLiteral(constraint.callArgs[1])
       ELSE Arr(MapParseMaybeLiteral(constraint.callArgs, 1))
  ELSE constraint.argument

\* ------------------------------------------------------------ schema model
\* A TypeNode is a record of one shape:
\*   kind        : the node kind ("null" stands for a null/undefined node)
\*   name        : type name of named / nullableNamed
\*   constraints : constraint usages of named / array
\*   members     : child nodes: <<inner>> of nullable, <<itemType>> of array,
\*                 <<keyType, valueType>> of dict, the members of union and
\*                 intersection, <<thenType, elseType>> of conditional
\*   fields      : field definitions of record
\*   condition   : guard text of conditional
\*   value       : value of literal
TypeNode(kind, name, constraints, members, fields, condition, value) ==
  [kind |-> kind, name |-> name, constraints |-> constraints, members |-> members,
   fields |-> fields, condition |-> condition, value |-> value]

NullNode == TypeNode("null", "", <<>>, <<>>, <<>>, "", Undef)
Named(name, constraints) == TypeNode("named", name, constraints, <<>>, <<>>, "", Undef)
NullableNamed(name) == TypeNode("nullableNamed", name, <<>>, <<>>, <<>>, "", Undef)
Nullable(inner) == TypeNode("nullable", "", <<>>, <<inner>>, <<>>, "", Undef)
ArrayOf(itemType, constraints) == TypeNode("array", "", constraints, <<itemType>>, <<>>, "", Undef)
Record(fields) == TypeNode("record", "", <<>>, <<>>, fields, "", Undef)
Dict(keyType, valueType) == TypeNode("dict", "", <<>>, <<keyType, valueType>>, <<>>, "", Undef)
Union(members) == TypeNode("union", "", <<>>, members, <<>>, "", Undef)
Intersection(members) == TypeNode("intersection", "", <<>>, members, <<>>, "", Undef)
Conditional(condition, thenType, elseType) ==
  TypeNode("conditional", "", <<>>, <<thenType, elseType>>, <<>>, condition, Undef)
Literal(value) == TypeNode("literal", "", <<>>, <<>>, <<>>, "", value)
Absent == TypeNode("absent", "", <<>>, <<>>, <<>>, "", Undef)

FieldDef(name, type, optional, defaultExpr) ==
  [name |-> name, type |-> type, optional |-> optional, defaultExpr |-> defaultExpr]

ConstraintUsage(name, hasCallArgs, callArgs, argument) ==
  [name |-> name, hasCallArgs |-> hasCallArgs, callArgs |-> callArgs, argument |-> argument]

\* typeNode.inner, .itemType, .keyType, .valueType, .thenType, .elseType
InnerOf(typeNode) == typeNode.members[1]
ItemTypeOf(typeNode) == typeNode.members[1]
KeyTypeOf(typeNode) == typeNode.members[1]
ValueTypeOf(typeNode) == typeNode.members[2]
ThenTypeOf(typeNode) == typeNode.members[1]
ElseTypeOf(typeNode) == typeNode.members[2]

\* A TypeDefinition is [isBuiltin, native, expr]; native names the native
\* predicate of a builtin.  A repository is [types, validators, defaultRoot]:
\* types maps the defined names to their definitions, validators maps the
\* defined <<typeName, constraintName>> pairs to validator definitions.

\* ------------------------------------------- repository (the collaborator)
\* typeDefinition.matches(value) of the builtin catalog
NativeMatches(native, value) ==
  IF native = "String" THEN value.t = "str"
  ELSE IF native = "Int" THEN value.t = "num"
  ELSE IF native = "Bool" THEN value.t = "bool"
  ELSE FALSE

\* validator.evaluate(value, argument) of the builtin catalog; "noResult"
\* is a predicate that returns undefined
NativeEvaluate(native, value, argument) ==
  IF native = "min"
  THEN Bool(value.t = "num" /\ argument.t = "num" /\ value.n >= argument.n)
  ELSE IF native = "minLength"
  THEN Bool(value.t = "str" /\ argument.t = "num" /\ Len(value.s) >= argument.n)
  ELSE IF native = "odd" THEN Bool(value.t = "num" /\ value.n % 2 = 1)
  ELSE IF native = "minItems"
  THEN Bool(value.t = "arr" /\ argument.t = "num" /\ Len(value.kids) >= argument.n)
  ELSE Undef

\* repository.getType(name): found is FALSE when the result is absent
getType(repository, name) ==
  IF name \in DOMAIN repository.types
  THEN [found |-> TRUE, def |-> repository.types[name]]
  ELSE [found |-> FALSE, def |-> [isBuiltin |-> FALSE, native |-> "", expr |-> NullNode]]

\* repository.getValidator(typeName, constraintName)
getValidator(repository, typeName, constraintName) ==
  IF <<typeName, constraintName>> \in DOMAIN repository.validators
  THEN [found |-> TRUE, def |-> repository.validators[<<typeName, constraintName>>]]
  ELSE [found |-> FALSE,
        def |-> [isBuiltin |-> FALSE, native |-> "", body |-> Null, params |-> <<>>]]

\* repository.resolveRootType(rootType): rootType is a value (a name or
\* null); ok is FALSE when it throws
resolveRootType(repository, rootType) ==
  IF rootType.t = "str"
  THEN IF rootType.s \in DOMAIN repository.types
       THEN [ok |-> TRUE, name |-> rootType.s, message |-> ""]
       ELSE [ok |-> FALSE, name |-> "", message |-> "Unknown root type: " \o rootType.s]
  ELSE IF repository.defaultRoot # ""
       THEN [ok |-> TRUE, name |-> repository.defaultRoot, message |-> ""]
       ELSE [ok |-> FALSE, name |-> "", message |-> "No root type"]

\* ------------------------------------------------------------- diagnostics
\* new ValidationError(path, message, code, category).  loc is a history
\* field the program does not have: the document location the evaluator
\* stood at when it created the diagnostic, as the sequence of descents
\* from the root, each [step, key, index] with step one of "field",
\* "index", "dictKey", "dictValue".
ValidationError(path, message, code, category, loc) ==
  [path |-> path, message |-> message, code |-> code, category |-> category, loc |-> loc]

Descent(step, key, index) == [step |-> step, key |-> key, index |-> index]

Scope(root, current, parent) == [root |-> root, current |-> current, parent |-> parent]

\* ArrayItemPath counting the elements from 1
ArrayItemPathFromOne(path, i) == path \o "[" \o ToString(i + 1) \o "]"

\* `${path}[${i}]` with the 0-based index i
ArrayItemPath(path, i) == path \o "[" \o ToString(i) \o "]"
\* `${path}.${field.name}`
RecordFieldPath(path, name) == path \o "." \o name
\* `${path}.[key:${entryKey}]`
DictKeyPath(path, entryKey) == path \o ".[key:" \o entryKey \o "]"
\* `${path}.${entryKey}`
DictValuePath(path, entryKey) == path \o "." \o entryKey

\* JSON.stringify of a string: the quotes and the escapes of ", \ and the
\* control characters the model's texts can hold
RECURSIVE EscapeJson(_, _)
EscapeJson(s, i) ==
  IF i > Len(s) THEN ""
  ELSE LET c == CharAt(s, i) IN
       (IF c = "\"" THEN "\\\""
        ELSE IF c = "\\" THEN "\\\\"
        ELSE IF c = "\n" THEN "\\n"
        ELSE IF c = "\r" THEN "\\r"
        ELSE IF c = "\t" THEN "\\t"
        ELSE c) \o EscapeJson(s, i + 1)

RECURSIVE JsonStringify(_)
RECURSIVE StringifyItems(_, _)
RECURSIVE StringifyMembers(_, _)
StringifyItems(items, i) ==
  IF i > Len(items) THEN ""
  ELSE (IF i > 1 THEN "," ELSE "")
       \o (IF items[i].t = "undef" THEN "null" ELSE JsonStringify(items[i]))
       \o StringifyItems(items, i + 1)

\* the members of an object; a property holding undefined is left out
StringifyMembers(value, i) ==
  IF i > Len(value.keys) THEN <<>>
  ELSE (IF value.kids[i].t = "undef" THEN <<>>
        ELSE <<"\"" \o EscapeJson(value.keys[i], 1) \o "\":" \o JsonStringify(value.kids[i])>>)
       \o StringifyMembers(value, i + 1)

RECURSIVE JoinTexts(_, _)
JoinTexts(texts, i) ==
  IF i > Len(texts) THEN ""
  ELSE (IF i > 1 THEN "," ELSE "") \o texts[i] \o JoinTexts(texts, i + 1)

\* JSON.stringify(value); undefined at the top prints as "undefined" in a
\* template literal
JsonStringify(value) ==
  IF value.t = "undef" THEN "undefined"
  ELSE IF value.t = "null" THEN "null"
  ELSE IF value.t = "bool" THEN (IF value.b THEN "true" ELSE "false")
  ELSE IF value.t = "num" THEN ToString(value.n)
  ELSE IF value.t = "str" THEN "\"" \o EscapeJson(value.s, 1) \o "\""
  ELSE IF value.t = "arr" THEN "[" \o StringifyItems(value.kids, 1) \o "]"
  ELSE "{" \o JoinTexts(StringifyMembers(value, 1), 1) \o "}"

\* ------------------------------------------------------ structural evaluator
\* Push as errors.unshift(error)
PushFront(errors, error) == <<error>> \o errors

\* errors.push(error)
Push(errors, error) == Append(errors, error)

\* MissingFieldSkipped without the test of lines 111-113
MissingFieldSkippedIgnoringAbsent(field) ==
  field.optional \/ field.defaultExpr # Null

\* the guard of the missing-field branch of the record case: TRUE when a
\* missing key is passed over silently
MissingFieldSkipped(field) ==
  \/ field.optional \/ field.defaultExpr # Null
  \/ field.type.kind = "absent"

\* scope.parent ?? scope.root
ConditionScope(scope) == Coalesce(scope.parent, scope.root)

\* ConditionalBranch written as matched ? thenType : elseType
ConditionalBranchByTruthiness(typeNode, matched) ==
  IF matched = TriTrue THEN ThenTypeOf(typeNode) ELSE ElseTypeOf(typeNode)

\* matched === true ? thenType : matched === false ? elseType : null
ConditionalBranch(typeNode, matched) ==
  IF matched = TriTrue THEN ThenTypeOf(typeNode)
  ELSE IF matched = TriFalse THEN ElseTypeOf(typeNode)
  ELSE NullNode

\* UnionOutcome without the early return of line 155
UnionOutcomeFallingThrough(someValid, path, loc, errors) ==
  Push(errors, ValidationError(path, "Value does not match any union member.",
                               "TypeMismatch", "TypeError", loc))

\* the union case once members.some(...) is known
UnionOutcome(someValid, path, loc, errors) ==
  IF someValid THEN errors
  ELSE Push(errors, ValidationError(path, "Value does not match any union member.",
                                    "TypeMismatch", "TypeError", loc))

\* the conditional case without a branch, once both isolated results are known
FallbackOutcome(thenValid, elseValid, path, loc, errors) ==
  IF ~thenValid /\ ~elseValid
  THEN Push(errors, ValidationError(path, "Value does not match conditional branches.",
                                    "TypeMismatch", "TypeError", loc))
  ELSE errors

\* the literal case
LiteralOutcome(typeNode, value, path, loc, errors) ==
  IF ~StrictEquals(value, typeNode.value)
  THEN Push(errors, ValidationError(path,
              "Expected literal " \o JsonStringify(typeNode.value) \o ".",
              "TypeMismatch", "TypeError", loc))
  ELSE errors

\* AbsentOutcome with the loose test value != null
AbsentOutcomeLoose(value, path, loc, errors) ==
  IF value.t \notin {"undef", "null"}
  THEN Push(errors, ValidationError(path, "Expected field to be absent.",
                                    "FieldMustBeAbsent", "ValidationError", loc))
  ELSE errors

\* the absent case
AbsentOutcome(value, path, loc, errors) ==
  IF value # Undef
  THEN Push(errors, ValidationError(path, "Expected field to be absent.",
                                    "FieldMustBeAbsent", "ValidationError", loc))
  ELSE errors

\* applyConstraint with the custom branch written as customResult !== true
applyConstraintUnlessTrue(targetType, constraint, value, path, loc, repository, errors, scope) ==
  LET validator == getValidator(repository, targetType, constraint.name) IN
  IF ~validator.found
  THEN Push(errors, ValidationError(path,
              "Unknown constraint: " \o targetType \o "." \o constraint.name,
              "UnknownConstraint", "SemanticError", loc))
  ELSE IF validator.def.isBuiltin /\ validator.def.native # ""
  THEN LET result == NativeEvaluate(validator.def.native, value,
                                    resolveConstraintArgument(constraint))
       IN IF result = Bool(FALSE)
          THEN Push(errors, ValidationError(path,
                      "Constraint failed: " \o targetType \o "." \o constraint.name,
                      "ConstraintViolation", "ValidationError", loc))
          ELSE errors
  ELSE LET customResult == evaluateCustomValidator(validator.def, constraint, value, scope)
       IN IF customResult # TriTrue
          THEN Push(errors, ValidationError(path,
                      "Constraint failed: " \o targetType \o "." \o constraint.name,
                      "ValidatorFailed", "ValidationError", loc))
          ELSE errors

applyConstraint(targetType, constraint, value, path, loc, repository, errors, scope) ==
  LET validator == getValidator(repository, targetType, constraint.name) IN
  IF ~validator.found
  THEN Push(errors, ValidationError(path,
              "Unknown constraint: " \o targetType \o "." \o constraint.name,
              "UnknownConstraint", "SemanticError", loc))
  ELSE IF validator.def.isBuiltin /\ validator.def.native # ""
  THEN LET result == NativeEvaluate(validator.def.native, value,
                                    resolveConstraintArgument(constraint))
       IN IF result = Bool(FALSE)
          THEN Push(errors, ValidationError(path,
                      "Constraint failed: " \o targetType \o "." \o constraint.name,
                      "ConstraintViolation", "ValidationError", loc))
          ELSE errors
  ELSE LET customResult == evaluateCustomValidator(validator.def, constraint, value, scope)
       IN IF customResult = TriFalse
          THEN Push(errors, ValidationError(path,
                      "Constraint failed: " \o targetType \o "." \o constraint.name,
                      "ValidatorFailed", "ValidationError", loc))
          ELSE errors

RECURSIVE ApplyConstraints(_, _, _, _, _, _, _, _, _)
\* for (const constraint of constraints) this.#applyConstraint(...), from
\* the i-th constraint on
ApplyConstraints(targetType, constraints, i, value, path, loc, repository, errors, scope) ==
  IF i > Len(constraints) THEN errors
  ELSE ApplyConstraints(targetType, constraints, i + 1, value, path, loc, repository,
         applyConstraint(targetType, constraints[i], value, path, loc, repository, errors, scope),
         scope)

RECURSIVE validateTypeNode(_, _, _, _, _, _, _)
RECURSIVE validateAgainstTypeName(_, _, _, _, _, _, _)
RECURSIVE validateNamed(_, _, _, _, _, _, _)
RECURSIVE ValidateItems(_, _, _, _, _, _, _, _)
RECURSIVE ValidateFields(_, _, _, _, _, _, _, _)
RECURSIVE ValidateEntries(_, _, _, _, _, _, _, _)
RECURSIVE ValidateMembers(_, _, _, _, _, _, _, _)
RECURSIVE isValid(_, _, _, _)

validateAgainstTypeName(value, typeName, path, loc, repository, errors, scope) ==
  LET typeDefinition == getType(repository, typeName) IN
  IF ~typeDefinition.found
  THEN Push(errors, ValidationError(path, "Unknown type: " \o typeName,
                                    "UnknownType", "TypeError", loc))
  ELSE IF typeDefinition.def.isBuiltin /\ typeDefinition.def.native # ""
  THEN IF ~NativeMatches(typeDefinition.def.native, value)
       THEN Push(errors, ValidationError(path, "Expected " \o typeName \o ".",
                                         "TypeMismatch", "TypeError", loc))
       ELSE errors
  ELSE validateTypeNode(typeDefinition.def.expr, value, path, loc, repository, errors, scope)

validateNamed(typeNode, value, path, loc, repository, errors, scope) ==
  ApplyConstraints(typeNode.name, typeNode.constraints, 1, value, path, loc, repository,
    validateAgainstTypeName(value, typeNode.name, path, loc, repository, errors, scope),
    scope)

\* the element loop of the array case, from 0-based index i on
ValidateItems(typeNode, value, i, path, loc, repository, errors, scope) ==
  IF i >= Len(value.kids) THEN errors
  ELSE ValidateItems(typeNode, value, i + 1, path, loc, repository,
         validateTypeNode(ItemTypeOf(typeNode), value.kids[i + 1], ArrayItemPath(path, i),
           Append(loc, Descent("index", "", i)), repository, errors,
           Scope(scope.root, value.kids[i + 1], value)),
         scope)

\* the field loop of the record case, from the i-th declared field on
ValidateFields(typeNode, value, i, path, loc, repository, errors, scope) ==
  IF i > Len(typeNode.fields) THEN errors
  ELSE LET field == typeNode.fields[i]
           hasValue == HasOwnProperty(value, field.name)
           fieldValue == GetProperty(value, field.name)
           fieldLoc == Append(loc, Descent("field", field.name, 0))
       IN ValidateFields(typeNode, value, i + 1, path, loc, repository,
            IF ~hasValue
            THEN IF MissingFieldSkipped(field) THEN errors
                 ELSE Push(errors, ValidationError(RecordFieldPath(path, field.name),
                             "Missing required field.", "FieldMissing", "ValidationError",
                             fieldLoc))
            ELSE validateTypeNode(field.type, fieldValue, RecordFieldPath(path, field.name),
                   fieldLoc, repository, errors, Scope(scope.root, fieldValue, value)),
            scope)

\* the loop of the dict case over Object.entries(value), from the i-th on
ValidateEntries(typeNode, value, i, path, loc, repository, errors, scope) ==
  IF i > Len(value.keys) THEN errors
  ELSE LET entryKey == value.keys[i]
           entryValue == value.kids[i]
           afterKey == validateTypeNode(KeyTypeOf(typeNode), Str(entryKey),
                         DictKeyPath(path, entryKey),
                         Append(loc, Descent("dictKey", entryKey, 0)), repository, errors,
                         Scope(scope.root, Str(entryKey), value))
       IN ValidateEntries(typeNode, value, i + 1, path, loc, repository,
            validateTypeNode(ValueTypeOf(typeNode), entryValue,
              DictValuePath(path, entryKey),
              Append(loc, Descent("dictValue", entryKey, 0)), repository, afterKey,
              Scope(scope.root, entryValue, value)),
            scope)

\* the member loop of the intersection case, from the i-th member on
ValidateMembers(typeNode, value, i, path, loc, repository, errors, scope) ==
  IF i > Len(typeNode.members) THEN errors
  ELSE ValidateMembers(typeNode, value, i + 1, path, loc, repository,
         validateTypeNode(typeNode.members[i], value, path, loc, repository, errors, scope),
         scope)

\* a fresh list, the path '$'; the list is dropped on return
isValid(typeNode, value, repository, scope) ==
  validateTypeNode(typeNode, value, "$", <<>>, repository, <<>>, scope) = <<>>

validateTypeNode(typeNode, value, path, loc, repository, errors, scope) ==
  IF typeNode.kind = "null" THEN errors
  ELSE IF typeNode.kind = "named"
  THEN validateNamed(typeNode, value, path, loc, repository, errors, scope)
  ELSE IF typeNode.kind = "nullableNamed"
  THEN IF value = Null THEN errors
       ELSE validateAgainstTypeName(value, typeNode.name, path, loc, repository, errors, scope)
  ELSE IF typeNode.kind = "nullable"
  THEN IF value = Null THEN errors
       ELSE validateTypeNode(InnerOf(typeNode), value, path, loc, repository, errors, scope)
  ELSE IF typeNode.kind = "array"
  THEN IF value.t # "arr"
       THEN Push(errors, ValidationError(path, "Expected array.", "TypeMismatch",
                                         "TypeError", loc))
       ELSE ValidateItems(typeNode, value, 0, path, loc, repository,
              ApplyConstraints("Array", typeNode.constraints, 1, value, path, loc,
                               repository, errors, scope),
              scope)
  ELSE IF typeNode.kind = "record"
  THEN IF ~isObject(value)
       THEN Push(errors, ValidationError(path, "Expected object.", "TypeMismatch",
                                         "TypeError", loc))
       ELSE ValidateFields(typeNode, value, 1, path, loc, repository, errors, scope)
  ELSE IF typeNode.kind = "dict"
  THEN IF ~isObject(value)
       THEN Push(errors, ValidationError(path, "Expected object/dict.", "TypeMismatch",
                                         "TypeError", loc))
       ELSE ValidateEntries(typeNode, value, 1, path, loc, repository, errors, scope)
  ELSE IF typeNode.kind = "union"
  THEN UnionOutcome(\E i \in 1..Len(typeNode.members) :
                       isValid(typeNode.members[i], value, repository, scope),
                    path, loc, errors)
  ELSE IF typeNode.kind = "intersection"
  THEN ValidateMembers(typeNode, value, 1, path, loc, repository, errors, scope)
  ELSE IF typeNode.kind = "conditional"
  THEN LET matched == evaluateCondition(typeNode.condition, ConditionScope(scope))
           branch == ConditionalBranch(typeNode, matched)
       IN IF branch.kind # "null"
          THEN validateTypeNode(branch, value, path, loc, repository, errors, scope)
          ELSE FallbackOutcome(isValid(ThenTypeOf(typeNode), value, repository, scope),
                               isValid(ElseTypeOf(typeNode), value, repository, scope),
                               path, loc, errors)
  ELSE IF typeNode.kind = "literal"
  THEN LiteralOutcome(typeNode, value, path, loc, errors)
  ELSE IF typeNode.kind = "absent"
  THEN AbsentOutcome(value, path, loc, errors)
  ELSE errors

\* ----------------------------------------------------------- JSON decoding
\* JSON.parse(text), for the JSON texts of the model: literals, decimal
\* integers, strings with the escapes \" \\ \/ \n \r \t, arrays and objects.
\* Every parser returns [ok, value, next]: ok is FALSE on a SyntaxError,
\* next is the position after the value.
JsonFail == [ok |-> FALSE, value |-> Undef, next |-> 0]
JsonOk(value, next) == [ok |-> TRUE, value |-> value, next |-> next]

\* obj[key] = value on an object under construction: a repeated key keeps
\* its place and takes the later value
SetProperty(obj, key, value) ==
  IF HasOwnProperty(obj, key)
  THEN Obj(obj.keys, [obj.kids EXCEPT ![IndexOfKey(obj.keys, key)] = value])
  ELSE Obj(Append(obj.keys, key), Append(obj.kids, value))

RECURSIVE ScanJsonString(_, _, _)
\* the characters of a string after its opening quote
ScanJsonString(text, i, out) ==
  IF i > Len(text) THEN JsonFail
  ELSE LET c == CharAt(text, i) IN
       IF c = "\"" THEN JsonOk(Str(out), i + 1)
       ELSE IF c \in {"\n", "\r", "\t"} THEN JsonFail
       ELSE IF c = "\\"
       THEN IF i + 1 > Len(text) THEN JsonFail
            ELSE LET e == CharAt(text, i + 1) IN
                 IF e \in {"\"", "\\", "/"} THEN ScanJsonString(text, i + 2, out \o e)
                 ELSE IF e = "n" THEN ScanJsonString(text, i + 2, out \o "\n")
                 ELSE IF e = "r" THEN ScanJsonString(text, i + 2, out \o "\r")
                 ELSE IF e = "t" THEN ScanJsonString(text, i + 2, out \o "\t")
                 ELSE JsonFail
       ELSE ScanJsonString(text, i + 1, out \o c)

\* -?(0|[1-9][0-9]*) at i
ParseJsonNumber(text, i) ==
  LET Digits1(neg, start, end) ==
        IF end = start THEN JsonFail
        ELSE JsonOk(Num(IF neg THEN 0 - DigitsToNat(SubSeq(text, start, end - 1), 1, 0)
                        ELSE DigitsToNat(SubSeq(text, start, end - 1), 1, 0)),
                    end)
      StartsAt(neg, start) ==
        Digits1(neg, start,
                IF StartsWithAt(text, start, "0") THEN start + 1 ELSE SkipDigits(text, start))
      Negative(neg) == StartsAt(neg, IF neg THEN i + 1 ELSE i)
  IN Negative(StartsWithAt(text, i, "-"))

RECURSIVE ParseJsonValue(_, _)
RECURSIVE ParseJsonItems(_, _, _)
RECURSIVE ParseJsonMembers(_, _, _)

\* the elements of an array after "[" or ",": i is at the next element
ParseJsonItems(text, i, items) ==
  LET Following(item, after) ==
        IF StartsWithAt(text, after, ",")
        THEN ParseJsonItems(text, after + 1, Append(items, item.value))
        ELSE IF StartsWithAt(text, after, "]")
        THEN JsonOk(Arr(Append(items, item.value)), after + 1)
        ELSE JsonFail
      Item(item) ==
        IF ~item.ok THEN JsonFail ELSE Following(item, SkipWhitespace(text, item.next))
  IN Item(ParseJsonValue(text, i))

\* the members of an object after "{" or ",": i is at the next key
ParseJsonMembers(text, i, obj) ==
  LET Following(added, after) ==
        IF StartsWithAt(text, after, ",") THEN ParseJsonMembers(text, after + 1, added)
        ELSE IF StartsWithAt(text, after, "}") THEN JsonOk(added, after + 1)
        ELSE JsonFail
      Member(key, member) ==
        IF ~member.ok THEN JsonFail
        ELSE Following(SetProperty(obj, key.value.s, member.value),
                       SkipWhitespace(text, member.next))
      Colon(key, colonAt) ==
        Member(key, IF key.ok /\ StartsWithAt(text, colonAt, ":")
                    THEN ParseJsonValue(text, colonAt + 1)
                    ELSE JsonFail)
      Key(key) == Colon(key, SkipWhitespace(text, key.next))
      KeyAt(keyAt) ==
        Key(IF StartsWithAt(text, keyAt, "\"")
            THEN ScanJsonString(text, keyAt + 1, "")
            ELSE JsonFail)
  IN KeyAt(SkipWhitespace(text, i))

ParseJsonValue(text, i) ==
  LET Opened(at, inside) ==
        IF StartsWithAt(text, at, "[")
        THEN IF StartsWithAt(text, inside, "]")
             THEN JsonOk(Arr(<<>>), inside + 1)
             ELSE ParseJsonItems(text, at + 1, <<>>)
        ELSE IF StartsWithAt(text, inside, "}")
        THEN JsonOk(Obj(<<>>, <<>>), inside + 1)
        ELSE ParseJsonMembers(text, at + 1, Obj(<<>>, <<>>))
      ValueAt(at) ==
        IF StartsWithAt(text, at, "null") THEN JsonOk(Null, at + 4)
        ELSE IF StartsWithAt(text, at, "true") THEN JsonOk(Bool(TRUE), at + 4)
        ELSE IF StartsWithAt(text, at, "false") THEN JsonOk(Bool(FALSE), at + 5)
        ELSE IF StartsWithAt(text, at, "\"") THEN ScanJsonString(text, at + 1, "")
        ELSE IF StartsWithAt(text, at, "[") \/ StartsWithAt(text, at, "{")
        THEN Opened(at, SkipWhitespace(text, at + 1))
        ELSE ParseJsonNumber(text, at)
  IN ValueAt(SkipWhitespace(text, i))

\* JSON.parse(text): ok is FALSE when it throws
JsonParse(text) ==
  LET Whole(parsed) ==
        IF parsed.ok /\ SkipWhitespace(text, parsed.next) = Len(text) + 1
        THEN parsed
        ELSE JsonFail
  IN Whole(ParseJsonValue(text, 1))

\* ============================================================ input sets
\* ---------------------------------------------------------------- documents
RECURSIVE SeqsUpTo(_, _)
\* the sequences over S of length at most n
SeqsUpTo(S, n) ==
  IF n = 0 THEN {<<>>}
  ELSE LET shorter == SeqsUpTo(S, n - 1)
       IN shorter \cup {Append(q, e) : q \in shorter, e \in S}

Numbers == {Num(n) : n \in 0..MaxNum}
Scalars == {Null, Bool(TRUE), Str("Draft"), Str("Rejected"), Str("because"), Str("be")}
             \cup Numbers
ItemPool == {Num(1), Str("abc")}
Arrays == {Arr(items) : items \in SeqsUpTo(ItemPool, MaxArrayLen)}

StatusPool == {Str("Draft"), Str("Rejected"), Num(1), Obj(<<"kind">>, <<Str("Draft")>>)}
ReasonPool == {Str("because"), Str("be"), Null}
Posts ==
  {Obj(<<>>, <<>>)}
    \cup {Obj(<<"status">>, <<st>>) : st \in StatusPool}
    \cup {Obj(<<"reason">>, <<re>>) : re \in ReasonPool}
    \cup {Obj(<<"status", "reason">>, <<st, re>>) : st \in StatusPool, re \in ReasonPool}

Nested ==
  {Obj(<<"items">>, <<a>>) : a \in Arrays}
    \cup {Obj(<<"map">>, <<Obj(<<"x">>, <<v>>)>>) : v \in ItemPool}
    \cup {Obj(<<"map">>, <<Obj(<<"x", "Draft">>, <<Num(1), Str("abc")>>)>>),
          Obj(<<"title">>, <<Str("abc")>>),
          Obj(<<"title", "extra">>, <<Num(1), Num(2)>>)}

\* the documents JSON text can denote
JsonDocuments == Scalars \cup Arrays \cup Posts \cup Nested

\* values only a caller passing a decoded value can supply: they hold undefined
UndefinedDocuments ==
  {Undef, Obj(<<"reason">>, <<Undef>>), Obj(<<"status", "reason">>, <<Str("Draft"), Undef>>),
   Arr(<<Undef>>)}

Documents == JsonDocuments \cup UndefinedDocuments

MalformedTexts ==
  {"{bad json", "{invalid json", "", "[1,2", "{\"status\":\"Draft\",}", "nul", "Draft"}

\* the jsonInput arguments: a string is JSON text, anything else is taken
\* as already decoded
JsonInputs ==
  {d \in Documents : d.t # "str"}
    \cup {Str(JsonStringify(d)) : d \in JsonDocuments}
    \cup {Str(" " \o JsonStringify(d) \o "\n") : d \in Posts}
    \cup {Str(t) : t \in MalformedTexts}

\* -------------------------------------------------------------- constraints
CallArgs(name, callArgs) == ConstraintUsage(name, TRUE, callArgs, Null)
Argument(name, argument) == ConstraintUsage(name, FALSE, <<>>, argument)

Param(name, defaultExpr) == [name |-> name, defaultExpr |-> defaultExpr]
BuiltinValidator(native) ==
  [isBuiltin |-> TRUE, native |-> native, body |-> Null, params |-> <<>>]
CustomValidator(body, params) ==
  [isBuiltin |-> FALSE, native |-> "", body |-> body, params |-> params]

ValidatorCatalog ==
  (<<"Int", "min">> :> BuiltinValidator("min"))
  @@ (<<"Int", "odd">> :> BuiltinValidator("odd"))
  @@ (<<"Int", "noResult">> :> BuiltinValidator("noResult"))
  @@ (<<"String", "min">> :> BuiltinValidator("minLength"))
  @@ (<<"Array", "min">> :> BuiltinValidator("minItems"))
  @@ (<<"String", "slug">> :> CustomValidator(Str("this matches /^[a-z]+$/"), <<>>))
  @@ (<<"String", "notDigits">> :> CustomValidator(Str("not (this matches /^[0-9]+$/)"), <<>>))
  @@ (<<"String", "badRegex">> :> CustomValidator(Str("this matches /(/"), <<>>))
  @@ (<<"Int", "range">> :>
        CustomValidator(Str("this >= $min and this <= $max"),
                        <<Param("min", Str("0")), Param("max", Str("1"))>>))
  @@ (<<"Int", "above">> :> CustomValidator(Str(" this > $floor "), <<Param("floor", Null)>>))
  @@ (<<"Int", "isOne">> :> CustomValidator(Str("this = 1"), <<>>))
  @@ (<<"Int", "opaque">> :> CustomValidator(Str("length(this) > 3"), <<>>))
  @@ (<<"Int", "noBody">> :> CustomValidator(Null, <<>>))
  @@ (<<"Title", "titled">> :> CustomValidator(Str("this != null"), <<>>))

ConstraintNames ==
  {"min", "odd", "noResult", "slug", "notDigits", "badRegex", "range", "above",
   "isOne", "opaque", "noBody", "unknownRule"}

ConstraintUsages ==
  {CallArgs(name, callArgs) :
     name \in ConstraintNames, callArgs \in {<<>>, <<Str("1")>>, <<Str("1"), Str(" 2 ")>>}}
    \cup {Argument(name, argument) : name \in ConstraintNames, argument \in {Null, Num(2)}}

TargetTypes == {"Int", "String", "Array", "Nope"}

\* ------------------------------------------------------------------- guards
\* A guard is [path, op, literal, tight]: the segments of the dotted path,
\* the operator, the literal as [text, value], and whether the operator is
\* written without blanks around it.
GuardLiterals ==
  {[text |-> "\"Rejected\"", value |-> Str("Rejected")],
   [text |-> "'Draft'", value |-> Str("Draft")],
   [text |-> "1", value |-> Num(1)]}

Guards ==
  [path : {<<"status">>, <<"status", "kind">>}, op : {"=", "!="},
   literal : GuardLiterals, tight : BOOLEAN]

RECURSIVE JoinDots(_, _)
JoinDots(segments, i) ==
  IF i > Len(segments) THEN ""
  ELSE (IF i > 1 THEN "." ELSE "") \o segments[i] \o JoinDots(segments, i + 1)

GuardText(guard) ==
  JoinDots(guard.path, 1)
    \o (IF guard.tight THEN guard.op ELSE " " \o guard.op \o "  ")
    \o guard.literal.text

WellFormedConditions ==
  {GuardText(g) : g \in {h \in Guards : h.tight = (h.op = "!=")}}

\* texts the guard pattern does not match
MalformedConditions == {"status > 1", "1status = 1", "status =", ""}

Conditions == WellFormedConditions \cup MalformedConditions

\* --------------------------------------------------------------- type nodes
TitleRecord == Record(<<FieldDef("title", Named("String", <<>>), FALSE, Null)>>)

LeafNodes ==
  {Named("String", <<>>), Named("Int", <<>>),
   Named("String", <<CallArgs("min", <<Str("3")>>)>>),
   Named("Int", <<CallArgs("unknownRule", <<Str("1")>>)>>),
   Named("Int", <<CallArgs("min", <<Str("1")>>), CallArgs("odd", <<>>)>>),
   Named("Nope", <<>>), Named("Nope", <<CallArgs("min", <<Str("1")>>)>>),
   Named("Title", <<>>), Named("Title", <<CallArgs("unknownRule", <<>>)>>),
   Named("Title", <<CallArgs("titled", <<>>)>>),
   NullableNamed("String"), NullableNamed("Nope"),
   Literal(Str("Draft")), Literal(Str("Rejected")), Literal(Num(1)), Literal(Null),
   Absent}

\* the nodes the generated composites are built from
CoreNodes ==
  {Named("String", <<>>), Named("Int", <<CallArgs("min", <<Str("1")>>)>>),
   Literal(Str("Draft")), Absent, Named("Nope", <<CallArgs("min", <<Str("1")>>)>>),
   TitleRecord}

BranchPairs ==
  {<<Named("String", <<CallArgs("min", <<Str("3")>>)>>), Absent>>,
   <<Absent, Named("String", <<>>)>>,
   <<Literal(Str("Draft")), Named("Int", <<>>)>>,
   <<TitleRecord, Literal(Num(1))>>}

ConditionalNodes ==
  {Conditional(c, b[1], b[2]) : c \in Conditions, b \in BranchPairs}

FieldDefs ==
  {FieldDef(name, type, optional, defaultExpr) :
     name \in {"status", "reason"},
     type \in CoreNodes \cup {Conditional("status = \"Rejected\"", Named("String", <<>>), Absent)},
     optional \in BOOLEAN, defaultExpr \in {Null, Str("'none'")}}

PostRecord(condition) ==
  Record(<<FieldDef("status", Union(<<Literal(Str("Rejected")), Literal(Str("Draft"))>>),
                    FALSE, Null),
           FieldDef("reason",
                    Conditional(condition, Named("String", <<CallArgs("min", <<Str("3")>>)>>),
                                Absent),
                    FALSE, Null)>>)

ItemsRecord(constraints) ==
  Record(<<FieldDef("items", ArrayOf(Named("Int", <<>>), constraints), FALSE, Null)>>)

MapRecord(keyType) ==
  Record(<<FieldDef("map", Dict(keyType, Named("Int", <<>>)), FALSE, Null)>>)

PairTypes ==
  {Named("String", <<>>), Absent,
   Conditional("status = \"Rejected\"", Named("String", <<>>), Absent)}

RecordNodes ==
  {Record(<<f>>) : f \in FieldDefs}
    \cup {Record(<<FieldDef("status", a, FALSE, Null), FieldDef("reason", b, FALSE, Null)>>) :
            a \in PairTypes, b \in PairTypes}
    \cup {Record(<<>>), TitleRecord}

DeepNodes ==
  {PostRecord(c) : c \in {"status = \"Rejected\"", "status!='Draft'", "status > 1"}}
    \cup {ItemsRecord(cs) : cs \in {<<>>, <<CallArgs("min", <<Str("2")>>)>>}}
    \cup {MapRecord(k) : k \in {Named("String", <<>>), Literal(Str("Draft"))}}
    \cup {Union(<<Record(<<FieldDef("status", Named("String", <<>>), FALSE, Null),
                          FieldDef("reason", Named("String", <<>>), FALSE, Null)>>),
                  ArrayOf(Named("Int", <<>>), <<>>)>>),
          Intersection(<<Record(<<FieldDef("status", Literal(Str("Draft")), FALSE, Null)>>),
                         Literal(Num(1))>>),
          Intersection(<<Literal(Num(1)), ArrayOf(Literal(Num(1)), <<>>)>>),
          ArrayOf(Conditional("status = 'Draft'", Named("String", <<>>), Absent), <<>>),
          ArrayOf(ArrayOf(Named("Int", <<>>), <<>>), <<>>),
          Nullable(TitleRecord),
          Union(<<>>), Intersection(<<>>)}

TypeNodes ==
  LeafNodes \cup ConditionalNodes \cup RecordNodes \cup DeepNodes
    \cup {Nullable(n) : n \in CoreNodes}
    \cup {ArrayOf(n, cs) : n \in CoreNodes,
                           cs \in {<<>>, <<CallArgs("min", <<Str("2")>>)>>,
                                   <<CallArgs("unknownRule", <<>>)>>}}
    \cup {Dict(k, v) : k \in {Named("String", <<>>), Literal(Str("Draft"))}, v \in CoreNodes}
    \cup {Union(<<a, b>>) : a \in CoreNodes, b \in CoreNodes}
    \cup {Intersection(<<a, b>>) : a \in CoreNodes, b \in CoreNodes}

\* ------------------------------------------------------------- repositories
BuiltinType(native) == [isBuiltin |-> TRUE, native |-> native, expr |-> NullNode]
UserType(expr) == [isBuiltin |-> FALSE, native |-> "", expr |-> expr]

TypeCatalog ==
  ("String" :> BuiltinType("String"))
  @@ ("Int" :> BuiltinType("Int"))
  @@ ("Title" :> UserType(TitleRecord))

\* the schema without a root type of its own
Catalog == [types |-> TypeCatalog, validators |-> ValidatorCatalog, defaultRoot |-> ""]

\* the schema whose type Root is expr and is the default root
SchemaOf(expr) ==
  [types |-> ("Root" :> UserType(expr)) @@ TypeCatalog,
   validators |-> ValidatorCatalog, defaultRoot |-> "Root"]

RootNodes ==
  LeafNodes \cup DeepNodes \cup {TitleRecord}
    \cup {n \in RecordNodes : Len(n.fields) # 1
                               \/ (n.fields[1].name = "status" /\ n.fields[1].defaultExpr = Null)}
    \cup {ArrayOf(n, <<CallArgs("min", <<Str("2")>>)>>) : n \in CoreNodes}
    \cup {Dict(Literal(Str("Draft")), v) : v \in CoreNodes}

\* The variable repository holds the expression of the type Root of the
\* schema in use, NullNode for the schema without a type Root;
\* RepositoryOf gives the repository object of that schema.
RepositoryOf(rootExpr) == IF rootExpr = NullNode THEN Catalog ELSE SchemaOf(rootExpr)

RootTypes == {Null, Str("Root"), Str("Int"), Str("NoSuchType")}

\* ------------------------------------------------- calls of the evaluator
\* A focus is a place of a document the evaluator can stand at: the root,
\* a property of a root object or an element of a root array, with the
\* path, the location and the scope the evaluator holds there.
Focus(root, value, parent, path, loc) ==
  [value |-> value, path |-> path, loc |-> loc, scope |-> Scope(root, value, parent)]

FociOf(doc) ==
  {Focus(doc, doc, Null, "$", <<>>)}
    \cup (IF doc.t = "obj"
          THEN {Focus(doc, doc.kids[i], doc, RecordFieldPath("$", doc.keys[i]),
                      <<Descent("field", doc.keys[i], 0)>>) : i \in 1..Len(doc.keys)}
          ELSE {})
    \cup (IF doc.t = "arr"
          THEN {Focus(doc, doc.kids[i], doc, ArrayItemPath("$", i - 1),
                      <<Descent("index", "", i - 1)>>) : i \in 1..Len(doc.kids)}
          ELSE {})

\* the places one level further down: the properties of the object post
\* held by the property "post" or by the element 0 of the document
InnerFociOf(doc, post) ==
  {Focus(doc, post.kids[i], post,
         RecordFieldPath(IF doc.t = "arr" THEN ArrayItemPath("$", 0)
                         ELSE RecordFieldPath("$", "post"),
                         post.keys[i]),
         <<IF doc.t = "arr" THEN Descent("index", "", 0) ELSE Descent("field", "post", 0),
           Descent("field", post.keys[i], 0)>>) : i \in 1..Len(post.keys)}

InnerPosts ==
  {Obj(<<"status", "reason">>, <<Str("Draft"), Str("because")>>),
   Obj(<<"status", "reason">>, <<Str("Rejected"), Str("be")>>)}

FocusDocuments ==
  Scalars \cup Posts \cup UndefinedDocuments
    \cup {d \in Arrays : Len(d.kids) <= 2}
    \cup {d \in Nested : HasOwnProperty(d, "map") \/ HasOwnProperty(d, "title")}

Foci ==
  UNION {FociOf(doc) : doc \in FocusDocuments}
    \cup UNION {InnerFociOf(Obj(<<"post">>, <<post>>), post) : post \in InnerPosts}
    \cup UNION {InnerFociOf(Arr(<<post>>), post) : post \in InnerPosts}

\* a diagnostic an earlier sibling left in the caller's list
EarlierError ==
  ValidationError("$.earlier", "Missing required field.", "FieldMissing", "ValidationError",
                  <<Descent("field", "earlier", 0)>>)

\* the lists the caller can hold at a focus: empty at the root
ErrorsBefore(focus) == IF focus.loc = <<>> THEN {<<>>} ELSE {<<>>, <<EarlierError>>}

NoConstraint == ConstraintUsage("", FALSE, <<>>, Null)

Call(method, typeNode, targetType, constraint, focus, errors) ==
  [method |-> method, typeNode |-> typeNode, targetType |-> targetType,
   constraint |-> constraint, value |-> focus.value, path |-> focus.path,
   loc |-> focus.loc, errors |-> errors, scope |-> focus.scope]

NoCall ==
  Call("validate", NullNode, "", NoConstraint, Focus(Undef, Undef, Null, "$", <<>>), <<>>)

ConstraintFoci ==
  UNION {FociOf(doc) : doc \in Scalars \cup {Undef, Arr(<<>>), Arr(<<Num(1), Num(2)>>),
                                           Obj(<<"status">>, <<Num(1)>>),
                                           Obj(<<"status">>, <<Str("abc")>>)}}

\* the message of the SyntaxError JSON.parse throws is the engine's own
JsonErrorMessages == {"Unexpected token", "Unexpected end of JSON input"}

\* ============================================================ state machine
VARIABLES
  pc,            \* "start", "decoded", "resolved", "done": position in validate;
                 \* "call", "returned": before and after a call of a private method
  jsonInput,     \* the arguments of validate
  repository,    \* the schema of the repository argument (see RepositoryOf)
  rootType,
  value,         \* the locals of validate
  resolvedRoot,
  result,        \* the list validate returns
  steps,         \* history: the steps taken so far
  call,          \* the arguments of the private method called
  returned       \* the caller's list after the call

vars == <<pc, jsonInput, repository, rootType, value, resolvedRoot, result, steps, call,
          returned>>

\* InvalidJsonError with the defaults of the ValidationError constructor
InvalidJsonErrorByDefault(message) ==
  ValidationError("$", "Invalid JSON: " \o message, "InvalidExpression", "ValidationError",
                  <<>>)

\* line 11
InvalidJsonError(message) ==
  ValidationError("$", "Invalid JSON: " \o message, "InvalidExpression", "ParseError", <<>>)

\* line 18
UnknownRootError(message) ==
  ValidationError("$", message, "UnknownType", "TypeError", <<>>)

InitValidate ==
  /\ pc = "start"
  /\ jsonInput \in JsonInputs
  /\ repository \in RootNodes
  /\ rootType \in RootTypes
  /\ rootType = Str("Root") \/ repository \in DeepNodes
  /\ value = Undef
  /\ resolvedRoot = ""
  /\ result = <<>>
  /\ steps = <<>>
  /\ call = NoCall
  /\ returned = <<>>

InitValidateTypeNode ==
  /\ pc = "call"
  /\ jsonInput = Undef
  /\ repository = NullNode
  /\ rootType = Null
  /\ value = Undef
  /\ resolvedRoot = ""
  /\ result = <<>>
  /\ steps = <<>>
  /\ \E typeNode \in TypeNodes, focus \in Foci :
       \E errors \in ErrorsBefore(focus) :
         call = Call("validateTypeNode", typeNode, "", NoConstraint, focus, errors)
  /\ returned = <<>>

InitApplyConstraint ==
  /\ pc = "call"
  /\ jsonInput = Undef
  /\ repository = NullNode
  /\ rootType = Null
  /\ value = Undef
  /\ resolvedRoot = ""
  /\ result = <<>>
  /\ steps = <<>>
  /\ \E targetType \in TargetTypes, constraint \in ConstraintUsages, focus \in ConstraintFoci :
       \E errors \in ErrorsBefore(focus) :
         call = Call("applyConstraint", NullNode, targetType, constraint, focus, errors)
  /\ returned = <<>>

Init == InitValidate \/ InitValidateTypeNode \/ InitApplyConstraint

\* validate, lines 7-12: decode the input when it is a string
Decode ==
  /\ pc = "start"
  /\ LET Decoded(parsed) ==
           IF ~parsed.ok
           THEN /\ \E message \in JsonErrorMessages : result' = <<InvalidJsonError(message)>>
                /\ pc' = "done"
                /\ value' = value
           ELSE /\ value' = parsed.value
                /\ pc' = "decoded"
                /\ result' = result
     IN Decoded(IF jsonInput.t = "str" THEN JsonParse(jsonInput.s) ELSE JsonOk(jsonInput, 0))
  /\ steps' = Append(steps, "decode")
  /\ UNCHANGED <<jsonInput, repository, rootType, resolvedRoot, call, returned>>

\* validate, lines 14-19: resolve the root type
ResolveRoot ==
  /\ pc = "decoded"
  /\ LET Resolved(resolved) ==
           IF resolved.ok
           THEN /\ resolvedRoot' = resolved.name
                /\ pc' = "resolved"
                /\ result' = result
           ELSE /\ result' = <<UnknownRootError(resolved.message)>>
                /\ pc' = "done"
                /\ resolvedRoot' = resolvedRoot
     IN Resolved(resolveRootType(RepositoryOf(repository), rootType))
  /\ steps' = Append(steps, "resolve")
  /\ UNCHANGED <<jsonInput, repository, rootType, value, call, returned>>

\* validate, lines 21-28: the structural evaluation from the root
Evaluate ==
  /\ pc = "resolved"
  /\ result' = validateAgainstTypeName(value, resolvedRoot, "$", <<>>, RepositoryOf(repository), <<>>,
                                       Scope(value, value, Null))
  /\ pc' = "done"
  /\ steps' = Append(steps, "evaluate")
  /\ UNCHANGED <<jsonInput, repository, rootType, value, resolvedRoot, call, returned>>

\* one call of #validateTypeNode
CallValidateTypeNode ==
  /\ pc = "call"
  /\ call.method = "validateTypeNode"
  /\ returned' = validateTypeNode(call.typeNode, call.value, call.path, call.loc,
                                  RepositoryOf(repository), call.errors, call.scope)
  /\ pc' = "returned"
  /\ steps' = Append(steps, "validateTypeNode")
  /\ UNCHANGED <<jsonInput, repository, rootType, value, resolvedRoot, result, call>>

\* one call of #applyConstraint
CallApplyConstraint ==
  /\ pc = "call"
  /\ call.method = "applyConstraint"
  /\ returned' = applyConstraint(call.targetType, call.constraint, call.value, call.path,
                                 call.loc, RepositoryOf(repository), call.errors, call.scope)
  /\ pc' = "returned"
  /\ steps' = Append(steps, "applyConstraint")
  /\ UNCHANGED <<jsonInput, repository, rootType, value, resolvedRoot, result, call>>

Next == Decode \/ ResolveRoot \/ Evaluate \/ CallValidateTypeNode \/ CallApplyConstraint

Spec == Init /\ [][Next]_vars

\* ================================================================ properties
Repo == RepositoryOf(repository)

IsDiagnostic(error, path, code, category) ==
  error.path = path /\ error.code = code /\ error.category = category

\* the call of a private method has returned
Returned(method) == pc = "returned" /\ call.method = method

\* the caller's list is a prefix of the list after the call
KeepsCallerList ==
  /\ Len(returned) >= Len(call.errors)
  /\ SubSeq(returned, 1, Len(call.errors)) = call.errors

\* the diagnostics the call appended
Appended == SubSeq(returned, Len(call.errors) + 1, Len(returned))

\* the call appended exactly one diagnostic, of this path, code and category
AppendedOne(path, code, category) ==
  /\ KeepsCallerList
  /\ Len(returned) = Len(call.errors) + 1
  /\ IsDiagnostic(returned[Len(returned)], path, code, category)

ProperPrefix(a, b) == Len(a) < Len(b) /\ SubSeq(b, 1, Len(a)) = a

\* ------------------------------------------------------------------------ C1
DecodeFails == jsonInput.t = "str" /\ ~JsonParse(jsonInput.s).ok
RootFails == ~DecodeFails /\ ~resolveRootType(Repo, rootType).ok

\* C1: validate returns early with exactly one diagnostic in exactly two
\* cases, and without any structural evaluation: (a) the input is text that
\* fails to decode: InvalidExpression / ParseError at '$', before the root
\* type is looked at, whatever rootType is; (b) the input decoded (or was
\* not text) and resolveRootType fails: UnknownType / TypeError at '$'.  In
\* every other case the structural evaluation runs.
C1_EarlyAbort ==
  (call.method = "validate" /\ pc = "done") =>
    /\ DecodeFails =>
         /\ Len(result) = 1
         /\ IsDiagnostic(result[1], "$", "InvalidExpression", "ParseError")
         /\ steps = <<"decode">>
    /\ RootFails =>
         /\ Len(result) = 1
         /\ IsDiagnostic(result[1], "$", "UnknownType", "TypeError")
         /\ steps = <<"decode", "resolve">>
    /\ (~DecodeFails /\ ~RootFails) => steps = <<"decode", "resolve", "evaluate">>

\* malformed text together with a root type the repository cannot resolve
C1_Witness ==
  /\ call.method = "validate" /\ pc = "done"
  /\ DecodeFails
  /\ rootType = Str("NoSuchType")
  /\ Len(result) = 1

\* ------------------------------------------------------------------------ C2
RecordCall ==
  /\ Returned("validateTypeNode")
  /\ call.typeNode.kind = "record"
  /\ call.value.t = "obj"

\* the indices of the appended diagnostics located at or below the field
AppendedAtField(name) ==
  {i \in 1..Len(Appended) :
     /\ Len(Appended[i].loc) > Len(call.loc)
     /\ SubSeq(Appended[i].loc, 1, Len(call.loc)) = call.loc
     /\ Appended[i].loc[Len(call.loc) + 1] = Descent("field", name, 0)}

FieldMustBePresent(field) ==
  ~field.optional /\ field.defaultExpr = Null /\ field.type.kind # "absent"

\* C2: a Record node validated against a non-array object at path p: for
\* every declared field whose key is absent, exactly one FieldMissing at
\* p.<name> is emitted iff the field is not optional, has a null defaultExpr
\* and its type is not directly Absent; otherwise nothing is emitted for the
\* field.  The diagnostics come in declaration order, and keys no field
\* declares produce none.
C2_RecordFieldMissing ==
  RecordCall =>
    LET fields == call.typeNode.fields IN
    /\ KeepsCallerList
    /\ \A k \in 1..Len(fields) :
         ~HasOwnProperty(call.value, fields[k].name) =>
           IF FieldMustBePresent(fields[k])
           THEN /\ Cardinality(AppendedAtField(fields[k].name)) = 1
                /\ \A i \in AppendedAtField(fields[k].name) :
                     IsDiagnostic(Appended[i], call.path \o "." \o fields[k].name,
                                  "FieldMissing", "ValidationError")
           ELSE AppendedAtField(fields[k].name) = {}
    /\ \A i \in 1..Len(Appended) : \E k \in 1..Len(fields) : i \in AppendedAtField(fields[k].name)
    /\ \A k1, k2 \in 1..Len(fields) :
         \A i \in AppendedAtField(fields[k1].name), j \in AppendedAtField(fields[k2].name) :
           k1 < k2 => i < j

\* a missing field typed by a conditional with an absent branch is reported,
\* a missing field typed absent is not, and the object has an undeclared key
C2_Witness ==
  /\ RecordCall
  /\ Len(call.typeNode.fields) = 2
  /\ call.typeNode.fields[1].type.kind = "conditional"
  /\ call.typeNode.fields[2].type.kind = "absent"
  /\ ~call.typeNode.fields[2].optional
  /\ call.value.keys = <<"kind">>
  /\ Len(Appended) = 1
  /\ Appended[1].code = "FieldMissing"

\* ------------------------------------------------------------------------ C3
UnionCall == Returned("validateTypeNode") /\ call.typeNode.kind = "union"

\* the diagnostics a member produces for the value on a list of its own
MemberDiagnostics(member) ==
  validateTypeNode(member, call.value, "$", <<>>, Repo, <<>>, call.scope)

\* C3: a Union node at path p leaves the caller's list unchanged when at
\* least one member validates the value with no diagnostic on a list of its
\* own, and otherwise appends exactly one TypeMismatch at p, whatever the
\* members produced; no diagnostic of a member reaches the caller's list.
C3_UnionOutcome ==
  UnionCall =>
    IF \E m \in 1..Len(call.typeNode.members) :
         MemberDiagnostics(call.typeNode.members[m]) = <<>>
    THEN returned = call.errors
    ELSE AppendedOne(call.path, "TypeMismatch", "TypeError")

\* no member matches, one member alone produces two diagnostics, and the
\* caller's list already holds a diagnostic
C3_Witness ==
  /\ UnionCall
  /\ call.errors # <<>>
  /\ \E m \in 1..Len(call.typeNode.members) :
       Len(MemberDiagnostics(call.typeNode.members[m])) >= 2
  /\ Len(returned) = Len(call.errors) + 1

\* ------------------------------------------------------------------------ C4
ConditionalCall == Returned("validateTypeNode") /\ call.typeNode.kind = "conditional"

\* the object the guard is evaluated against
GuardScope == IF call.scope.parent # Null THEN call.scope.parent ELSE call.scope.root

WellFormedGuard == call.typeNode.condition \in WellFormedConditions

\* the guard whose text the node carries
GuardOf(condition) == CHOOSE g \in Guards : GuardText(g) = condition

\* the guard's path leads to a value: every segment is an own key of the
\* object reached so far (the paths of the model have one or two segments)
GuardTargetFound(guard, object) ==
  /\ object.t = "obj"
  /\ HasOwnProperty(object, guard.path[1])
  /\ Len(guard.path) = 2 =>
       /\ GetProperty(object, guard.path[1]).t = "obj"
       /\ HasOwnProperty(GetProperty(object, guard.path[1]), guard.path[2])

GuardTarget(guard, object) ==
  IF Len(guard.path) = 1 THEN GetProperty(object, guard.path[1])
  ELSE GetProperty(GetProperty(object, guard.path[1]), guard.path[2])

\* what the guard means: the value at the path is, or is not, the literal
GuardHolds(guard, object) ==
  /\ GuardTargetFound(guard, object)
  /\ LET target == GuardTarget(guard, object)
         same == target.t \notin {"arr", "obj"} /\ target = guard.literal.value
     IN IF guard.op = "=" THEN same ELSE ~same

\* the value validated against one branch only, on the caller's list
StrictAgainst(branch) ==
  validateTypeNode(branch, call.value, call.path, call.loc, Repo, call.errors, call.scope)

\* valid if either branch accepts the value on a list of its own, else one
\* TypeMismatch at the path
PermissiveFallback ==
  IF \/ MemberDiagnostics(ThenTypeOf(call.typeNode)) = <<>>
     \/ MemberDiagnostics(ElseTypeOf(call.typeNode)) = <<>>
  THEN returned = call.errors
  ELSE AppendedOne(call.path, "TypeMismatch", "TypeError")

PostExample ==
  /\ call.method = "validate" /\ pc = "done"
  /\ rootType = Str("Root")
  /\ repository = PostRecord("status = \"Rejected\"")
  /\ value = Obj(<<"status", "reason">>, <<Str("Draft"), Str("because")>>)

\* C4: the guard of a Conditional node is evaluated against scope.parent
\* when present, else scope.root.  True: the value is validated against
\* thenType only; false: against elseType only; indeterminate (the scope is
\* not an object, or the guard text does not parse): no diagnostic if either
\* branch accepts the value on its own, else one TypeMismatch.  The Post
\* type with status "Draft" and a reason present yields FieldMustBeAbsent
\* at $.reason.
C4_ConditionalTriState ==
  /\ ConditionalCall =>
       IF GuardScope.t # "obj" \/ ~WellFormedGuard THEN PermissiveFallback
       ELSE IF GuardHolds(GuardOf(call.typeNode.condition), GuardScope)
       THEN returned = StrictAgainst(ThenTypeOf(call.typeNode))
       ELSE returned = StrictAgainst(ElseTypeOf(call.typeNode))
  /\ PostExample =>
       \E i \in 1..Len(result) :
         IsDiagnostic(result[i], "$.reason", "FieldMustBeAbsent", "ValidationError")

\* two levels down (the parent is not the root), the guard is false, the
\* else branch rejects a value the then branch would have accepted
C4_Witness ==
  /\ ConditionalCall
  /\ call.scope.parent \notin {Null, call.scope.root}
  /\ WellFormedGuard
  /\ ~GuardHolds(GuardOf(call.typeNode.condition), GuardScope)
  /\ MemberDiagnostics(ThenTypeOf(call.typeNode)) = <<>>
  /\ Len(returned) = Len(call.errors) + 1
  /\ returned[Len(returned)].code = "FieldMustBeAbsent"

\* ------------------------------------------------------------------------ C9
\* C9 as stated: for a guard <dotted.path> <op> <literal>, a missing
\* segment or a scope that is not an object makes the guard false for both
\* operators, and the value is validated against elseType only.
C9_NonObjectScopeIsFalse ==
  (ConditionalCall /\ WellFormedGuard
     /\ ~GuardTargetFound(GuardOf(call.typeNode.condition), GuardScope)) =>
    /\ evaluateCondition(call.typeNode.condition, GuardScope) = TriFalse
    /\ returned = StrictAgainst(ElseTypeOf(call.typeNode))

\* C9 amended: for a guard <dotted.path> <op> <literal> given an object
\* scope, a segment that is missing, or reached through a value that is not
\* an object, makes the guard false for both operators and the value is
\* validated against elseType only; a scope that is itself not an object
\* makes the guard indeterminate and the either-branch fallback is used.
C9_MissingSegmentIsFalse ==
  (ConditionalCall /\ WellFormedGuard) =>
    /\ (GuardScope.t = "obj"
          /\ ~GuardTargetFound(GuardOf(call.typeNode.condition), GuardScope)) =>
         /\ evaluateCondition(call.typeNode.condition, GuardScope) = TriFalse
         /\ returned = StrictAgainst(ElseTypeOf(call.typeNode))
    /\ GuardScope.t # "obj" =>
         /\ evaluateCondition(call.typeNode.condition, GuardScope) = TriNull
         /\ PermissiveFallback

\* a != guard over a missing segment sends a value the then branch accepts
\* to the else branch, which rejects it
C9_Witness ==
  /\ ConditionalCall /\ WellFormedGuard
  /\ GuardOf(call.typeNode.condition).op = "!="
  /\ GuardScope.t = "obj"
  /\ ~GuardTargetFound(GuardOf(call.typeNode.condition), GuardScope)
  /\ MemberDiagnostics(ThenTypeOf(call.typeNode)) = <<>>
  /\ Len(returned) = Len(call.errors) + 1

\* ------------------------------------------------------------------------ C5
ConstraintCall == Returned("applyConstraint")

CalledValidator == getValidator(Repo, call.targetType, call.constraint.name)

CustomResult ==
  evaluateCustomValidator(CalledValidator.def, call.constraint, call.value, call.scope)

\* custom validators of the catalog whose outcome is known from their text:
\* "this = 1" fails on everything but 1; a body that is no expression of
\* the language, a pattern that does not compile and a missing body never fail
ReadsAsFailed(name) ==
  IF name = "isOne" THEN call.value # Num(1)
  ELSE IF name \in {"opaque", "badRegex", "noBody"} THEN FALSE
  ELSE CustomResult = TriFalse

\* C5: applying one constraint usage appends at most one diagnostic: one
\* UnknownConstraint (SemanticError) when the repository has no validator;
\* for a builtin one ConstraintViolation (ValidationError) iff the native
\* predicate returns exactly false; for a custom one ValidatorFailed iff the
\* body evaluates to false, nothing when it is true, indeterminate or
\* unparseable.
C5_ConstraintOutcome ==
  ConstraintCall =>
    IF ~CalledValidator.found
    THEN AppendedOne(call.path, "UnknownConstraint", "SemanticError")
    ELSE IF CalledValidator.def.isBuiltin
    THEN IF NativeEvaluate(CalledValidator.def.native, call.value,
                           resolveConstraintArgument(call.constraint)) = Bool(FALSE)
         THEN AppendedOne(call.path, "ConstraintViolation", "ValidationError")
         ELSE returned = call.errors
    ELSE /\ CustomResult = TriFalse <=> ReadsAsFailed(call.constraint.name)
         /\ IF ReadsAsFailed(call.constraint.name)
            THEN AppendedOne(call.path, "ValidatorFailed", "ValidationError")
            ELSE returned = call.errors

\* a custom validator whose body is no expression of the language leaves a
\* non-empty list as it was
C5_Witness ==
  /\ ConstraintCall
  /\ CalledValidator.found /\ ~CalledValidator.def.isBuiltin
  /\ CustomResult = TriNull
  /\ CalledValidator.def.body = Str("length(this) > 3")
  /\ call.errors # <<>>
  /\ returned = call.errors

\* ------------------------------------------------------------------------ C8
UnresolvedNamedCall ==
  /\ Returned("validateTypeNode")
  /\ call.typeNode.kind = "named"
  /\ ~getType(Repo, call.typeNode.name).found

\* C8: a Named node whose name the repository cannot resolve emits
\* UnknownType and stops: exactly one diagnostic is appended and no attached
\* constraint is applied.
C8_UnresolvedNamedStops ==
  UnresolvedNamedCall => AppendedOne(call.path, "UnknownType", "TypeError")

\* ----------------------------------------------------------------------- C10
AbsentCall == Returned("validateTypeNode") /\ call.typeNode.kind = "absent"

\* C10 as stated: an Absent node emits exactly one FieldMustBeAbsent when
\* an actual value is present; null and the missing sentinel are no actual
\* value and yield nothing.
C10_NullIsNotAValue ==
  AbsentCall =>
    IF call.value \in {Null, Undef} THEN returned = call.errors
    ELSE AppendedOne(call.path, "FieldMustBeAbsent", "ValidationError")

\* C10 amended: an Absent node emits exactly one FieldMustBeAbsent for
\* every value other than the missing sentinel (undefined), null included,
\* and nothing for the missing sentinel.
C10_OnlyUndefinedIsAbsent ==
  AbsentCall =>
    IF call.value = Undef THEN returned = call.errors
    ELSE AppendedOne(call.path, "FieldMustBeAbsent", "ValidationError")

\* a field present with the value null is reported
C10_Witness ==
  /\ AbsentCall
  /\ call.value = Null
  /\ call.scope.parent.t = "obj"
  /\ Len(returned) = Len(call.errors) + 1
  /\ returned[Len(returned)].code = "FieldMustBeAbsent"

\* ------------------------------------------------------------------------ C6
ValidateDone == call.method = "validate" /\ pc = "done"

\* ancestors come first: no diagnostic follows one located strictly below it
PreOrder(errors) ==
  \A i, j \in 1..Len(errors) : ProperPrefix(errors[i].loc, errors[j].loc) => i < j

\* C6 as stated: the list validate returns is in document pre-order, for
\* every type expression.
C6_PreOrder == ValidateDone => PreOrder(result)

RECURSIVE EvaluatesTopDown(_)
\* the type expression, with the bodies of the named types it refers to,
\* holds no Named node with attached constraints over a user-defined type,
\* no Intersection of two or more members and no Record declaring a field
\* name twice
EvaluatesTopDown(typeNode) ==
  IF typeNode.kind \in {"named", "nullableNamed"}
  THEN LET typeDefinition == getType(Repo, typeNode.name) IN
       (typeDefinition.found /\ ~(typeDefinition.def.isBuiltin /\ typeDefinition.def.native # ""))
         => (typeNode.constraints = <<>> /\ EvaluatesTopDown(typeDefinition.def.expr))
  ELSE IF typeNode.kind = "record"
  THEN /\ \A i, j \in 1..Len(typeNode.fields) :
            typeNode.fields[i].name = typeNode.fields[j].name => i = j
       /\ \A i \in 1..Len(typeNode.fields) : EvaluatesTopDown(typeNode.fields[i].type)
  ELSE /\ typeNode.kind = "intersection" => Len(typeNode.members) < 2
       /\ \A i \in 1..Len(typeNode.members) : EvaluatesTopDown(typeNode.members[i])

\* Root = Title(unknownRule), Title = { title: String }, document {}
TitledExample ==
  /\ ValidateDone /\ rootType = Str("Root")
  /\ repository = Named("Title", <<CallArgs("unknownRule", <<>>)>>)
  /\ value = Obj(<<>>, <<>>)

\* C6 amended: the list validate returns is in the evaluator's traversal
\* order, which puts a diagnostic at an ancestor path before one at a
\* descendant path for every root type whose expression holds no Named
\* node with attached constraints over a user-defined type, no
\* Intersection of two or more members and no Record declaring a field name
\* twice.  The constraints attached to a Named node are reported after the
\* diagnostics of its body: Root = Title(unknownRule) over
\* Title = { title: String } and the document {} give FieldMissing at
\* $.title and then UnknownConstraint at $.
C6_PreOrderTopDown ==
  /\ (ValidateDone /\ steps = <<"decode", "resolve", "evaluate">>
        /\ EvaluatesTopDown(Named(resolvedRoot, <<>>))) => PreOrder(result)
  /\ TitledExample =>
       [i \in 1..Len(result) |-> <<result[i].path, result[i].code>>]
         = <<<<"$.title", "FieldMissing">>, <<"$", "UnknownConstraint">>>>

\* a diagnostic at a path and a later one strictly below it
C6_Witness ==
  /\ ValidateDone /\ steps = <<"decode", "resolve", "evaluate">>
  /\ EvaluatesTopDown(Named(resolvedRoot, <<>>))
  /\ \E i, j \in 1..Len(result) : i < j /\ ProperPrefix(result[i].loc, result[j].loc)

\* ------------------------------------------------------------------------ C7
RECURSIVE PathOfLocation(_, _)
\* the path grammar: '$', then '.name' per record field, '[i]' per array
\* element, '.[key:K]' for a dict key and '.K' for a dict value
PathOfLocation(loc, i) ==
  IF i > Len(loc) THEN ""
  ELSE (IF loc[i].step = "field" THEN "." \o loc[i].key
        ELSE IF loc[i].step = "index" THEN "[" \o ToString(loc[i].index) \o "]"
        ELSE IF loc[i].step = "dictKey" THEN ".[key:" \o loc[i].key \o "]"
        ELSE "." \o loc[i].key)
       \o PathOfLocation(loc, i + 1)

ItemsExample ==
  /\ ValidateDone /\ rootType = Str("Root")
  /\ repository = ItemsRecord(<<>>)
  /\ value = Obj(<<"items">>, <<Arr(<<Num(1), Num(1), Str("abc")>>)>>)

MapExample ==
  /\ ValidateDone /\ rootType = Str("Root")
  /\ repository = MapRecord(Literal(Str("Draft")))
  /\ value = Obj(<<"map">>, <<Obj(<<"x">>, <<Str("abc")>>)>>)

\* C7: every diagnostic validate returns carries the path of the location
\* it was detected at, written in the path grammar; named types, nullables,
\* intersection members and conditional branches add nothing to the path.
\* An error in the third element of the array field items is at
\* '$.items[2]'; a dict entry keyed x under the field map is at '$.map.x'
\* for its value and at '$.map.[key:x]' for its key.
C7_PathOfLocation ==
  /\ ValidateDone =>
       \A i \in 1..Len(result) : result[i].path = "$" \o PathOfLocation(result[i].loc, 1)
  /\ ItemsExample => [i \in 1..Len(result) |-> result[i].path] = <<"$.items[2]">>
  /\ MapExample => [i \in 1..Len(result) |-> result[i].path] = <<"$.map.[key:x]", "$.map.x">>

\* the third element of the array field items is reported
C7_Witness ==
  /\ ItemsExample
  /\ Len(result) = 1
  /\ result[1].loc = <<Descent("field", "items", 0), Descent("index", "", 2)>>
====
